---------------------------- MODULE Spec2Model ----------------------------
(***************************************************************************)
(* A model of hubitat-backup.py: the date resolver get_date, the hub       *)
(* session (Hub.login / get / download with _verify_response), the backup *)
(* synchroniser download_available_backups, the retention pruner           *)
(* clean_old_backups and the script body that sequences them.              *)
(*                                                                         *)
(* Time is counted in minutes of the proleptic Gregorian calendar, the     *)
(* resolution of the hub's "mm/dd HH:MM" strings.  Datetimes are naive     *)
(* (no time zone), as in the script.                                       *)
(***************************************************************************)
EXTENDS Integers, Sequences, FiniteSets, TLC

(***************************************************************************)
(* Bounds of the model.                                                    *)
(***************************************************************************)
\* Longest backup list the hub reports.
MaxBackups == 2
\* Most minutes the wall clock advances during one run.
MaxTicks == 1

(***************************************************************************)
(* Calendar arithmetic of datetime.                                        *)
(***************************************************************************)
MinutesPerDay == 24 * 60

IsLeap(y) == (y % 4 = 0 /\ y % 100 # 0) \/ y % 400 = 0

DaysInMonth(y, m) ==
    IF m = 2 THEN (IF IsLeap(y) THEN 29 ELSE 28)
    ELSE IF m \in {4, 6, 9, 11} THEN 30 ELSE 31

\* Days before January 1st of year y.
DaysBeforeYear(y) ==
    (y - 1) * 365 + ((y - 1) \div 4) - ((y - 1) \div 100) + ((y - 1) \div 400)

RECURSIVE DaysBeforeMonth(_, _)
DaysBeforeMonth(y, m) ==
    IF m = 1 THEN 0 ELSE DaysBeforeMonth(y, m - 1) + DaysInMonth(y, m - 1)

\* The datetime y-m-d H:M as a count of minutes.
Minutes(y, m, d, H, M) ==
    ((DaysBeforeYear(y) + DaysBeforeMonth(y, m) + d) * 24 + H) * 60 + M

\* The calendar years the model's clock can show.
Years == 2023 .. 2026

\* datetime.year of the instant t.
YearOf(t) ==
    CHOOSE y \in Years :
        Minutes(y, 1, 1, 0, 0) <= t /\ t < Minutes(y + 1, 1, 1, 0, 0)

(***************************************************************************)
(* A partial date is the hub's createTime, <<mm, dd, HH, MM>>.             *)
(* strptime(f"{year} {partial}", "%Y %m/%d %H:%M") raises ValueError when  *)
(* the fields do not form a date of that year.                             *)
(***************************************************************************)
ValidIn(year, p) ==
    /\ p[1] \in 1 .. 12
    /\ p[2] \in 1 .. DaysInMonth(year, p[1])
    /\ p[3] \in 0 .. 23
    /\ p[4] \in 0 .. 59

strptime(year, p) ==
    IF ValidIn(year, p)
    THEN [ok |-> TRUE, t |-> Minutes(year, p[1], p[2], p[3], p[4])]
    ELSE [ok |-> FALSE, t |-> 0]

\* Which of the two candidates get_date returns.
PickDate(date1, date2, t) == IF date1 < t THEN date1 ELSE date2

\* get_date(partial) with datetime.now() = t: both candidates are parsed
\* before either is chosen, so a ValueError of either one is raised.
get_date(p, t) ==
    LET date1 == strptime(YearOf(t), p)
        date2 == strptime(YearOf(t) - 1, p)
    IN  IF date1.ok /\ date2.ok
        THEN [ok |-> TRUE, t |-> PickDate(date1.t, date2.t, t)]
        ELSE [ok |-> FALSE, t |-> 0]


(***************************************************************************)
(* File names are sequences of characters, so that str.endswith is         *)
(* computed and not assumed.                                               *)
(***************************************************************************)
NameA == <<"a", ".", "l", "z", "f">>
NameB == <<"b", ".", "l", "z", "f">>
NameT == <<"b", ".", "l", "z", "f", ".", "t", "x", "t">>
Names == {NameA, NameB, NameT}

\* The suffix of a backup archive.
Lzf == <<".", "l", "z", "f">>


\* A test for the suffix anywhere in the name: `suffix in name`.
Contains(name, suffix) ==
    \E k \in 1 .. Len(name) :
        /\ k + Len(suffix) - 1 <= Len(name)
        /\ SubSeq(name, k, k + Len(suffix) - 1) = suffix

\* str.endswith
endswith(name, suffix) ==
    /\ Len(name) >= Len(suffix)
    /\ SubSeq(name, Len(name) - Len(suffix) + 1, Len(name)) = suffix

(***************************************************************************)
(* The destination directory: each name is absent or an entry with a kind  *)
(* ("file", "dir", or "link": a symbolic link that resolves to a regular   *)
(* file), a modification time and, for what sync writes, the state of its  *)
(* content ("archive": all the bytes the hub sent; "partial": fewer).      *)
(* Sync and prune run one after the other in one process, so each of       *)
(* their steps is atomic.                                                  *)
(***************************************************************************)
Absent == [kind |-> "absent", mtime |-> 0, data |-> "none"]

Entry(kind, mtime, data) == [kind |-> kind, mtime |-> mtime, data |-> data]

EmptyDir == [n \in Names |-> Absent]


\* A check that looks for the file in the wrong place and never finds it.
ExistsNowhere(d, name) == FALSE

\* os.path.exists(os.path.join(backup_path, name))
exists(d, name) == d[name].kind # "absent"


\* is_file that follows symbolic links, the default of DirEntry.is_file.
IsFileFollowingLinks(e) == e.kind \in {"file", "link"}

\* DirEntry.is_file(follow_symlinks=False)
is_file(e) == e.kind = "file"

\* The names os.scandir yields.
scandir(d) == {n \in Names : d[n].kind # "absent"}

(***************************************************************************)
(* The hub's answers.  A response has an HTTP status, the "success" member *)
(* of its JSON body and the body's payload.                                *)
(***************************************************************************)
Statuses == {200, 500}

Response(status, success, body) ==
    [status |-> status, success |-> success, body |-> body]

Raised(kind) == [ok |-> FALSE, err |-> kind, value |-> <<>>]

Returned(v) == [ok |-> TRUE, err |-> "none", value |-> v]

\* Hub._verify_response
verify_response(is_json, response) ==
    IF response.status # 200 THEN Raised("status")
    ELSE IF ~is_json THEN Returned(response.body)
    ELSE IF ~response.success THEN Raised("success")
    ELSE Returned(response.body)

\* A post that returns the body whatever the answer.
PostUnverified(response) == Returned(response.body)

\* A download that returns the body whatever the status.
DownloadUnverified(response) == Returned(response.body)

\* A download that looks for "success" in the body, as post and get do.
DownloadVerified(response) == verify_response(TRUE, response)

\* Hub.post, Hub.get: a structured request.  Hub.download: a raw one.
post(response) == verify_response(TRUE, response)

get(response) == verify_response(TRUE, response)

download(response) == verify_response(FALSE, response)

\* A request of the session and the hub's answer to it, as the hub sees them.
Request(op, path, name, n, response) ==
    [op |-> op, path |-> path, name |-> name, pass |-> n,
     status |-> response.status, success |-> response.success]

\* Whether the bytes of a download are shorter than the writer's buffer:
\* file.write keeps such content in the buffer until the file is closed.
Sizes == {"small", "large"}

(***************************************************************************)
(* The state.                                                              *)
(***************************************************************************)
VARIABLES
    now,            \* the wall clock, datetime.now()
    ticks,          \* minutes the clock has advanced
    MAX_AGE_DAYS,   \* args.max_age_days
    backups,        \* the list the hub reports under /api/backups
    destExists,     \* whether DESTINATION is a directory
    dir,            \* the entries of DESTINATION
    mode,           \* who calls: "main" (the script), "sync", "prune", "date", "hub"
    pc,             \* where the caller is
    pass,           \* which call of download_available_backups this is
    i,              \* download_available_backups: index of `backup` in `backups`
    err,            \* the exception raised, "none" if none
    reqs,           \* the requests sent to the hub, in order
    prune_now,      \* clean_old_backups: its local `now`
    todo,           \* clean_old_backups: the entries scandir has yet to yield
    partial,        \* get_date: its argument
    resolved,       \* get_date: its result
    \* What the run has done, for the statements about it.
    created,        \* the files sync opened: name, createTime, clock at the write
    snap,           \* DESTINATION when the latest call of sync began
    passEnd,        \* DESTINATION when the previous call of sync ended
    pruneArgs,      \* the arguments clean_old_backups was called with
    dirAtPrune,     \* DESTINATION when clean_old_backups began to scan
    failed,         \* the entry whose stat or unlink failed, if any
    call,           \* a method of Hub called on its own: its kind, the answer
    outcome         \* what that method returned or raised

vars == <<now, ticks, MAX_AGE_DAYS, backups, destExists, dir, mode, pc, pass, i,
          err, reqs, prune_now, todo, partial, resolved, created, snap, passEnd,
          pruneArgs, dirAtPrune, failed, call, outcome>>

\* The configuration never changes.
config == <<MAX_AGE_DAYS, backups, mode>>

pruneVars == <<prune_now, todo, pruneArgs, dirAtPrune, failed>>

dateVars == <<partial, resolved>>

hubVars == <<call, outcome>>

(***************************************************************************)
(* download_available_backups                                              *)
(***************************************************************************)

\* A handler that catches the errors of hub requests only.
CatchRequestErrors(e) ==
    IF e \in {"login", "list", "download"} THEN "main_except" ELSE "crashed"

\* The script's `except Exception as e`: every exception of the try block
\* is caught.
Catch(e) == "main_except"

\* Where exception e, raised inside the try block of the script or inside a
\* direct call of sync, takes the caller.
RaiseTo(m, e) == IF m = "main" THEN Catch(e) ELSE "sync_raised"

\* Where the return of download_available_backups takes the caller.
ReturnTo(m) == IF m = "main" THEN "prune_call" ELSE "sync_returned"

\* The `with io.open(target, "wb") as file:` block for one backup, with the
\* clock at t, the downloaded bytes of size class `size`, and the step of
\* the block the filesystem fails at ("none": no failure).  io.open creates
\* the file; file.write writes large content through and keeps small
\* content in the buffer; get_date may raise; os.utime sets the times;
\* leaving the block closes the file, which writes out the buffer (and so
\* stamps the file with the clock again).
WriteFile(d, name, createTime, t, size, fault) ==
    LET date == get_date(createTime, t)
        file(mtime, data) == [d EXCEPT ![name] = Entry("file", mtime, data)]
    IN  IF fault = "open" THEN [dir |-> d, err |-> "open"]
        ELSE IF fault = "write" /\ size = "large"
        THEN [dir |-> file(t, "partial"), err |-> "write"]
        ELSE IF ~date.ok THEN [dir |-> file(t, "archive"), err |-> "date"]
        ELSE IF fault = "utime" THEN [dir |-> file(t, "archive"), err |-> "utime"]
        ELSE IF size = "small"
        THEN IF fault = "close"
             THEN [dir |-> file(date.t, "partial"), err |-> "close"]
             ELSE [dir |-> file(t, "archive"), err |-> "none"]
        ELSE [dir |-> file(date.t, "archive"), err |-> "none"]

\* The steps of the block that can fail for content of a size class.
Faults(size) ==
    IF size = "small" THEN {"none", "open", "utime", "close"}
    ELSE {"none", "open", "write", "utime"}

\* os.makedirs(backup_path, exist_ok=True): nothing to do, or created.
SyncMakedirs ==
    /\ pc = "sync_makedirs"
    /\ destExists' = TRUE
    /\ pc' = "sync_list"
    /\ UNCHANGED <<now, ticks, config, dir, pass, i, err, reqs, created, snap,
                   passEnd, pruneVars, dateVars, hubVars>>

\* os.makedirs raises: the directory is missing and cannot be created.
SyncMakedirsFails ==
    /\ pc = "sync_makedirs"
    /\ ~destExists
    /\ err' = "makedirs"
    /\ pc' = RaiseTo(mode, "makedirs")
    /\ UNCHANGED <<now, ticks, config, destExists, dir, pass, i, reqs, created,
                   snap, passEnd, pruneVars, dateVars, hubVars>>


\* The list is used without the test for an empty one.
AfterListUnchecked(result) == IF ~result.ok THEN "list" ELSE "none"

\* What follows the answer to hub.get("/api/backups")["backups"].
AfterList(result) ==
    IF ~result.ok THEN "list"
    ELSE IF result.value = <<>> THEN "empty"
    ELSE "none"

\* backups = hub.get("/api/backups")["backups"]; if not backups: throw(...)
SyncList ==
    /\ pc = "sync_list"
    /\ \E status \in Statuses, success \in BOOLEAN :
         LET response == Response(status, success, backups)
             result == get(response)
             e == AfterList(result)
         IN  /\ reqs' = Append(reqs, Request("GET", "/api/backups", <<>>, pass, response))
             /\ err' = e
             /\ pc' = IF e = "none" THEN "sync_loop" ELSE RaiseTo(mode, e)
             /\ i' = 1
    /\ UNCHANGED <<now, ticks, config, destExists, dir, pass, created, snap,
                   passEnd, pruneVars, dateVars, hubVars>>

\* if not backup_name.endswith(".lzf"): continue
SyncSkipSuffix ==
    /\ pc = "sync_loop"
    /\ i <= Len(backups)
    /\ ~endswith(backups[i].name, Lzf)
    /\ i' = i + 1
    /\ UNCHANGED <<now, ticks, config, destExists, dir, pc, pass, err, reqs,
                   created, snap, passEnd, pruneVars, dateVars, hubVars>>

\* if os.path.exists(target): continue
SyncSkipExisting ==
    /\ pc = "sync_loop"
    /\ i <= Len(backups)
    /\ endswith(backups[i].name, Lzf)
    /\ exists(dir, backups[i].name)
    /\ i' = i + 1
    /\ UNCHANGED <<now, ticks, config, destExists, dir, pc, pass, err, reqs,
                   created, snap, passEnd, pruneVars, dateVars, hubVars>>


\* A loop that swallows the failure and goes on to the next backup.
ContinueAfterFailure(m, k, e) == [pc |-> "sync_loop", i |-> k + 1]

\* Where a failed download or write of backups[k] leaves the loop: the
\* exception leaves the function.
AfterFailure(m, k, e) == [pc |-> RaiseTo(m, e), i |-> k]

\* content = hub.download(...), then the with block that writes the file.
SyncDownload ==
    /\ pc = "sync_loop"
    /\ i <= Len(backups)
    /\ endswith(backups[i].name, Lzf)
    /\ ~exists(dir, backups[i].name)
    /\ \E status \in Statuses, success \in BOOLEAN, size \in Sizes :
         LET name == backups[i].name
             response == Response(status, success, size)
             content == download(response)
         IN  /\ reqs' = Append(reqs, Request("DOWNLOAD", "/api/downloadBackup/", name,
                                             pass, response))
             /\ IF ~content.ok
                THEN /\ err' = "download"
                     /\ pc' = AfterFailure(mode, i, "download").pc
                     /\ i' = AfterFailure(mode, i, "download").i
                     /\ UNCHANGED <<dir, created>>
                ELSE \E fault \in Faults(content.value) :
                       LET w == WriteFile(dir, name, backups[i].createTime, now,
                                          content.value, fault)
                       IN  /\ dir' = w.dir
                           /\ err' = w.err
                           /\ created' =
                                IF fault = "open" THEN created
                                ELSE created \cup
                                     {[name |-> name,
                                       createTime |-> backups[i].createTime,
                                       at |-> now]}
                           /\ pc' = IF w.err = "none" THEN pc
                                    ELSE AfterFailure(mode, i, w.err).pc
                           /\ i' = IF w.err = "none" THEN i + 1
                                   ELSE AfterFailure(mode, i, w.err).i
    /\ UNCHANGED <<now, ticks, config, destExists, pass, snap, passEnd,
                   pruneVars, dateVars, hubVars>>

\* The for loop is exhausted: download_available_backups returns.
SyncReturn ==
    /\ pc = "sync_loop"
    /\ i > Len(backups)
    /\ pc' = ReturnTo(mode)
    /\ UNCHANGED <<now, ticks, config, destExists, dir, pass, i, err, reqs,
                   created, snap, passEnd, pruneVars, dateVars, hubVars>>

\* A caller of download_available_backups calls it twice in a row.
Passes == 1 .. 2

\* The caller calls download_available_backups again, with the same hub
\* and the same destination.
SyncAgain ==
    /\ mode = "sync"
    /\ pc \in {"sync_returned", "sync_raised"}
    /\ pass + 1 \in Passes
    /\ pass' = pass + 1
    /\ pc' = "sync_makedirs"
    /\ i' = 1
    /\ err' = "none"
    /\ snap' = dir
    /\ passEnd' = [names |-> scandir(dir), err |-> err]
    /\ UNCHANGED <<now, ticks, config, destExists, dir, reqs, created,
                   pruneVars, dateVars, hubVars>>

(***************************************************************************)
(* clean_old_backups                                                       *)
(***************************************************************************)
\* file_age_days = (now - file_stamp).days: timedelta.days rounds down.
file_age_days(t, mtime) == (t - mtime) \div MinutesPerDay

\* if file_age_days < max_age_days: continue
TooYoung(age, max_age_days) == age < max_age_days

\* now = datetime.now(); os.scandir(backup_path) opens the directory.
PruneStart ==
    /\ pc = "prune_call"
    /\ destExists
    /\ prune_now' = now
    /\ pruneArgs' = [called |-> TRUE, max_age_days |-> MAX_AGE_DAYS]
    /\ todo' = scandir(dir)
    /\ dirAtPrune' = dir
    /\ pc' = "prune_scan"
    /\ UNCHANGED <<now, ticks, config, destExists, dir, pass, i, err, reqs,
                   created, snap, passEnd, failed, dateVars, hubVars>>

\* os.scandir raises FileNotFoundError: nothing catches it.
PruneScandirFails ==
    /\ pc = "prune_call"
    /\ ~destExists
    /\ prune_now' = now
    /\ pruneArgs' = [called |-> TRUE, max_age_days |-> MAX_AGE_DAYS]
    /\ err' = "scandir"
    /\ pc' = "crashed"
    /\ UNCHANGED <<now, ticks, config, destExists, dir, pass, i, reqs, created,
                   snap, passEnd, todo, dirAtPrune, failed, dateVars, hubVars>>

\* The loop goes on to the next entry.
Continue(item) ==
    /\ todo' = todo \ {item}
    /\ UNCHANGED <<now, ticks, config, destExists, pc, pass, i, err, reqs,
                   created, snap, passEnd, prune_now, pruneArgs, dirAtPrune,
                   failed, dateVars, hubVars>>

\* os.stat or os.unlink raises for `item`: the exception leaves the loop,
\* the function and the script.
Abort(item, what) ==
    /\ err' = what
    /\ failed' = item
    /\ pc' = "crashed"
    /\ UNCHANGED <<now, ticks, config, destExists, dir, pass, i, reqs, created,
                   snap, passEnd, prune_now, todo, pruneArgs, dirAtPrune,
                   dateVars, hubVars>>

\* if not item.is_file(follow_symlinks=False): continue
PruneSkipNotFile ==
    /\ pc = "prune_scan"
    /\ \E item \in todo :
         /\ ~is_file(dir[item])
         /\ Continue(item)
         /\ UNCHANGED dir

\* if not item.name.endswith(".lzf"): continue
PruneSkipSuffix ==
    /\ pc = "prune_scan"
    /\ \E item \in todo :
         /\ is_file(dir[item])
         /\ ~endswith(item, Lzf)
         /\ Continue(item)
         /\ UNCHANGED dir

\* stat = os.stat(...) raises.
PruneStatFails ==
    /\ pc = "prune_scan"
    /\ \E item \in todo :
         /\ is_file(dir[item])
         /\ endswith(item, Lzf)
         /\ Abort(item, "stat")

\* if file_age_days < max_age_days: continue
PruneKeep ==
    /\ pc = "prune_scan"
    /\ \E item \in todo :
         /\ is_file(dir[item])
         /\ endswith(item, Lzf)
         /\ TooYoung(file_age_days(prune_now, dir[item].mtime), pruneArgs.max_age_days)
         /\ Continue(item)
         /\ UNCHANGED dir

\* os.unlink(os.path.join(backup_path, item.name))
PruneUnlink ==
    /\ pc = "prune_scan"
    /\ \E item \in todo :
         /\ is_file(dir[item])
         /\ endswith(item, Lzf)
         /\ ~TooYoung(file_age_days(prune_now, dir[item].mtime), pruneArgs.max_age_days)
         /\ dir' = [dir EXCEPT ![item] = Absent]
         /\ Continue(item)

\* os.unlink raises.
PruneUnlinkFails ==
    /\ pc = "prune_scan"
    /\ \E item \in todo :
         /\ is_file(dir[item])
         /\ endswith(item, Lzf)
         /\ ~TooYoung(file_age_days(prune_now, dir[item].mtime), pruneArgs.max_age_days)
         /\ Abort(item, "unlink")

\* scandir is exhausted: clean_old_backups returns.
PruneReturn ==
    /\ pc = "prune_scan"
    /\ todo = {}
    /\ pc' = "done"
    /\ UNCHANGED <<now, ticks, config, destExists, dir, pass, i, err, reqs,
                   created, snap, passEnd, pruneVars, dateVars, hubVars>>

(***************************************************************************)
(* The script                                                              *)
(***************************************************************************)
\* hub = Hub(...); hub.login()
MainLogin ==
    /\ pc = "main_login"
    /\ \E status \in Statuses, success \in BOOLEAN :
         LET response == Response(status, success, <<>>)
             result == post(response)
         IN  /\ reqs' = Append(reqs, Request("POST", "/newLogin", <<>>, pass, response))
             /\ err' = IF result.ok THEN "none" ELSE "login"
             /\ pc' = IF result.ok THEN "sync_makedirs" ELSE Catch("login")
    /\ UNCHANGED <<now, ticks, config, destExists, dir, pass, i, created, snap,
                   passEnd, pruneVars, dateVars, hubVars>>

\* print(e), then the statement after the try: clean_old_backups(...)
MainExcept ==
    /\ pc = "main_except"
    /\ pc' = "prune_call"
    /\ UNCHANGED <<now, ticks, config, destExists, dir, pass, i, err, reqs,
                   created, snap, passEnd, pruneVars, dateVars, hubVars>>

(***************************************************************************)
(* The methods of Hub, called on their own with the hub's answer           *)
(***************************************************************************)
\* No method of Hub is called on its own.
NoCall == [request_type |-> "none", response |-> Response(200, TRUE, <<>>)]

HubReturns(result) ==
    /\ outcome' = result
    /\ pc' = "hub_returned"
    /\ UNCHANGED <<now, ticks, config, destExists, dir, pass, i, err, reqs,
                   created, snap, passEnd, pruneVars, dateVars, call>>

\* Hub.post
HubPost ==
    /\ pc = "hub_call"
    /\ call.request_type = "POST"
    /\ HubReturns(post(call.response))

\* Hub.get
HubGet ==
    /\ pc = "hub_call"
    /\ call.request_type = "GET"
    /\ HubReturns(get(call.response))

\* Hub.download
HubDownload ==
    /\ pc = "hub_call"
    /\ call.request_type = "DOWNLOAD"
    /\ HubReturns(download(call.response))

(***************************************************************************)
(* get_date, called on its own                                             *)
(***************************************************************************)
DateCall ==
    /\ pc = "date_call"
    /\ resolved' = get_date(partial, now)
    /\ pc' = "date_returned"
    /\ UNCHANGED <<now, ticks, config, destExists, dir, pass, i, err, reqs,
                   created, snap, passEnd, pruneVars, partial, hubVars>>

(***************************************************************************)
(* The wall clock.  Time that passes is observed by the next               *)
(* datetime.now(), so it is let pass where one is about to be read.        *)
(***************************************************************************)
Tick ==
    /\ pc \in {"sync_loop", "prune_call", "date_call"}
    /\ ticks < MaxTicks
    /\ now' = now + 1
    /\ ticks' = ticks + 1
    /\ UNCHANGED <<config, destExists, dir, pc, pass, i, err, reqs, created,
                   snap, passEnd, pruneVars, dateVars, hubVars>>

(***************************************************************************)
(* Initial states: the inputs of a run.                                    *)
(***************************************************************************)
\* The clock when the script starts.
Nows == {Minutes(2024, 3, 15, 10, 0)}

\* args.max_age_days: the default and a shorter window.
MaxAgeChoices == {7, 90}

\* An entry of the hub's list.
Descriptor(name, createTime) == [name |-> name, createTime |-> createTime]

\* The backups the hub may report: a.lzf made on "03/01 09:00" or on
\* "02/29 09:00", b.lzf and b.lzf.txt made on "03/01 09:00".
Descriptors ==
    {Descriptor(NameA, <<3, 1, 9, 0>>), Descriptor(NameA, <<2, 29, 9, 0>>),
     Descriptor(NameB, <<3, 1, 9, 0>>), Descriptor(NameT, <<3, 1, 9, 0>>)}

BackupLists == UNION {[1 .. n -> Descriptors] : n \in 0 .. MaxBackups}

\* An entry whose age is exactly max_age_days at time t.
Old(kind, t, max_age_days) ==
    Entry(kind, t - max_age_days * MinutesPerDay, "archive")

\* What the destination of the script may hold under each name when it
\* starts: an old backup, an old symbolic link, an old text file.
MainEntries(n, t, max_age_days) ==
    {Absent, Old(IF n = NameB THEN "link" ELSE "file", t, max_age_days)}

MainDirs(t, max_age_days) ==
    {d \in [Names -> {Absent, Old("link", t, max_age_days), Old("file", t, max_age_days)}] :
        \A n \in Names : d[n] \in MainEntries(n, t, max_age_days)}

Start(m, p) ==
    /\ mode = m
    /\ pc = p
    /\ ticks = 0
    /\ pass = 1
    /\ i = 1
    /\ err = "none"
    /\ reqs = <<>>
    /\ prune_now = 0
    /\ todo = {}
    /\ resolved = [ok |-> FALSE, t |-> 0]
    /\ created = {}
    /\ snap = dir
    /\ passEnd = [names |-> {}, err |-> "none"]
    /\ pruneArgs = [called |-> FALSE, max_age_days |-> 0]
    /\ dirAtPrune = EmptyDir
    /\ failed = <<>>
    /\ outcome = Raised("none")

\* The script is started: the destination is missing, or holds backups as
\* old as the retention window among its entries.
Init ==
    /\ now \in Nows
    /\ MAX_AGE_DAYS \in MaxAgeChoices
    /\ backups \in BackupLists
    /\ partial = <<1, 1, 0, 0>>
    /\ call = NoCall
    /\ \/ destExists = FALSE /\ dir = EmptyDir
       \/ destExists = TRUE
          /\ dir \in MainDirs(now, MAX_AGE_DAYS)
    /\ Start("main", "main_login")

Sync ==
    \/ SyncMakedirs
    \/ SyncMakedirsFails
    \/ SyncList
    \/ SyncSkipSuffix
    \/ SyncSkipExisting
    \/ SyncDownload
    \/ SyncReturn

Prune ==
    \/ PruneStart
    \/ PruneScandirFails
    \/ PruneSkipNotFile
    \/ PruneSkipSuffix
    \/ PruneStatFails
    \/ PruneKeep
    \/ PruneUnlink
    \/ PruneUnlinkFails
    \/ PruneReturn

Next ==
    \/ MainLogin
    \/ Sync
    \/ MainExcept
    \/ Prune
    \/ Tick

Spec == Init /\ [][Next]_vars

(***************************************************************************)
(* download_available_backups called directly, twice in a row, on a        *)
(* destination that holds entries of every kind.                           *)
(***************************************************************************)
Kinds == {"file", "dir", "link"}

InitSync ==
    /\ now \in Nows
    /\ MAX_AGE_DAYS = 90
    /\ backups \in BackupLists
    /\ partial = <<1, 1, 0, 0>>
    /\ call = NoCall
    /\ \/ destExists = FALSE /\ dir = EmptyDir
       \/ destExists = TRUE
          /\ dir \in [Names -> {Absent} \cup {Old(k, now, 1) : k \in Kinds}]
          /\ dir[NameT].kind \in {"absent", "file"}
    /\ Start("sync", "sync_makedirs")

\* The two calls follow each other at once: the clock stands still.
NextSync ==
    \/ Sync
    \/ SyncAgain

SpecSync == InitSync /\ [][NextSync]_vars

(***************************************************************************)
(* clean_old_backups called directly on a destination whose entries are    *)
(* of every kind, with ages at and around the retention window.            *)
(***************************************************************************)
PruneMaxAges == {0, 7, 90}

\* Minutes of age: exactly max_age_days, a minute less, a day less.
Ages(max_age_days) ==
    {max_age_days * MinutesPerDay,
     max_age_days * MinutesPerDay - 1,
     (max_age_days - 1) * MinutesPerDay}

InitPrune ==
    /\ now \in Nows
    /\ MAX_AGE_DAYS \in PruneMaxAges
    /\ backups = <<>>
    /\ partial = <<1, 1, 0, 0>>
    /\ call = NoCall
    /\ \/ destExists = FALSE /\ dir = EmptyDir
       \/ destExists = TRUE
          /\ dir \in [Names -> {Absent} \cup
                       {Entry(k, now - a, "archive") :
                           k \in Kinds, a \in Ages(MAX_AGE_DAYS)}]
    /\ Start("prune", "prune_call")

NextPrune ==
    \/ Prune
    \/ Tick

SpecPrune == InitPrune /\ [][NextPrune]_vars

(***************************************************************************)
(* get_date called directly.                                               *)
(***************************************************************************)
DateNows ==
    {Minutes(2024, 3, 15, 10, 0), Minutes(2025, 3, 15, 10, 0),
     Minutes(2025, 1, 1, 0, 0), Minutes(2025, 12, 31, 23, 58)}

Partials ==
    {<<m, d, t[1], t[2]>> :
        m \in {1, 2, 3, 12, 13}, d \in {1, 15, 29, 31},
        t \in {<<0, 0>>, <<9, 0>>, <<10, 0>>, <<10, 1>>, <<23, 59>>}}

InitDate ==
    /\ now \in DateNows
    /\ MAX_AGE_DAYS = 90
    /\ backups = <<>>
    /\ partial \in Partials
    /\ call = NoCall
    /\ destExists = FALSE
    /\ dir = EmptyDir
    /\ Start("date", "date_call")

NextDate ==
    \/ DateCall
    \/ Tick

SpecDate == InitDate /\ [][NextDate]_vars

(***************************************************************************)
(* A method of Hub called directly on an answer of the hub.                *)
(***************************************************************************)
\* response.status_code: OK, No Content, Not Found, Internal Server Error.
VerifyStatuses == {200, 204, 404, 500}

\* The answers the hub may give to a request of each kind: the body of a
\* login answer is empty, that of a list answer is the list, that of a
\* download is the bytes.
Bodies(request_type) ==
    IF request_type = "POST" THEN {<<>>}
    ELSE IF request_type = "GET" THEN BackupLists
    ELSE Sizes

InitVerify ==
    /\ now \in Nows
    /\ MAX_AGE_DAYS = 90
    /\ backups = <<>>
    /\ partial = <<1, 1, 0, 0>>
    /\ \E t \in {"POST", "GET", "DOWNLOAD"} :
         \E status \in VerifyStatuses, success \in BOOLEAN, body \in Bodies(t) :
            call = [request_type |-> t, response |-> Response(status, success, body)]
    /\ destExists = FALSE
    /\ dir = EmptyDir
    /\ Start("hub", "hub_call")

NextVerify ==
    \/ HubPost
    \/ HubGet
    \/ HubDownload

SpecVerify == InitVerify /\ [][NextVerify]_vars

(***************************************************************************)
(* The claims.                                                             *)
(***************************************************************************)
\* The names of Names that end with ".lzf", listed one by one.
ArchiveNames == {NameA, NameB}

\* C1: in every run of the script, whatever authenticate and sync did, the
\* run does not end before clean_old_backups has been called with the
\* configured max_age_days: the script has a next step until it is done or
\* an error of the prune phase ends it, and whenever it has ended, or is
\* scanning, prune was called with args.max_age_days.
C1_PruneFollowsSync ==
    /\ pc \in {"prune_scan", "done", "crashed"} =>
         /\ pruneArgs.called
         /\ pruneArgs.max_age_days = MAX_AGE_DAYS
    /\ pc \notin {"done", "crashed"} => ENABLED Next

\* A failed download was caught and the prune phase is scanning.
C1_Witness ==
    /\ pc = "prune_scan"
    /\ err = "download"
    /\ pruneArgs.called


\* The names download requests of call k of sync asked for.
DownloadsOfPass(k) ==
    {reqs[j].name : j \in {x \in 1 .. Len(reqs) :
                              reqs[x].op = "DOWNLOAD" /\ reqs[x].pass = k}}

\* The second of two calls of sync in a row has returned or raised.
SecondEnded == pass = 2 /\ pc \in {"sync_returned", "sync_raised"}

SyncEnded == pc \in {"main_except", "prune_call"}

\* C3: once sync has returned or failed, every file it created carries the
\* modification time get_date resolves its createTime to (at the clock of
\* the write), not the wall clock of the download.
C3_MtimeIsCreateTime ==
    SyncEnded =>
        \A c \in created :
            LET date == get_date(c.createTime, c.at)
            IN  exists(dir, c.name) => date.ok /\ dir[c.name].mtime = date.t


\* The age in whole days, rounded down, that entry n had when prune began.
AgeDays(n) == (prune_now - dirAtPrune[n].mtime) \div MinutesPerDay

\* The condition under which prune is to delete entry n.
MeetsDeletion(n) ==
    /\ dirAtPrune[n].kind = "file"
    /\ n \in ArchiveNames
    /\ AgeDays(n) >= pruneArgs.max_age_days

\* clean_old_backups has scanned the directory and has returned or raised.
PruneEnded == pc \in {"done", "crashed"} /\ pruneArgs.called /\ destExists

\* C4: when prune has ended, an entry has been deleted if and only if it
\* was a regular file, named *.lzf, with age_days >= max_age_days (an entry
\* whose own stat or unlink failed aside).
C4_DeletesIffOld ==
    PruneEnded =>
        \A n \in scandir(dirAtPrune) \ {failed} :
            ~exists(dir, n) <=> MeetsDeletion(n)

\* The decision of C4 in the calls of prune that return: exactly the
\* entries that meet the condition are gone, the others are as they were.
C4_OnReturn ==
    pc = "done" =>
        \A n \in scandir(dirAtPrune) :
            /\ ~exists(dir, n) <=> MeetsDeletion(n)
            /\ exists(dir, n) => dir[n] = dirAtPrune[n]

\* C5: a failure of stat or unlink on one entry does not stop the scan:
\* when prune has ended, every other entry has been visited, and every
\* other entry that met the deletion condition is deleted.
C5_ScanAttemptsEveryEntry ==
    PruneEnded =>
        /\ todo \subseteq {failed}
        /\ \A n \in scandir(dirAtPrune) \ {failed} :
               MeetsDeletion(n) => ~exists(dir, n)

\* C6: for a partial date that is a date of the current year, get_date
\* returns the current-year datetime when it is before now, the
\* previous-year datetime otherwise, and never a datetime after now.
C6_Resolve ==
    (pc = "date_returned" /\ ValidIn(YearOf(now), partial)) =>
        LET year == YearOf(now)
            thisYear == Minutes(year, partial[1], partial[2], partial[3], partial[4])
            lastYear == Minutes(year - 1, partial[1], partial[2], partial[3], partial[4])
        IN  /\ resolved.ok
            /\ resolved.t <= now
            /\ thisYear < now => resolved.t = thisYear
            /\ thisYear >= now => resolved.t = lastYear


\* C10: prune leaves every directory, every symbolic link and every entry
\* whose name does not end with ".lzf" exactly as it was, whatever its age
\* and whatever max_age_days.
C10_OthersUntouched ==
    (pruneArgs.called /\ destExists) =>
        \A n \in Names :
            (dirAtPrune[n].kind \in {"dir", "link"} \/ n \notin ArchiveNames) =>
                dir[n] = dirAtPrune[n]

\* prune has returned; it deleted an old backup and met an old symbolic
\* link named *.lzf and an old file of another suffix.
C10_Witness ==
    /\ pc = "done"
    /\ \E n \in ArchiveNames :
         dirAtPrune[n].kind = "link" /\ AgeDays(n) >= pruneArgs.max_age_days
    /\ \E n \in Names \ ArchiveNames :
         dirAtPrune[n].kind = "file" /\ AgeDays(n) >= pruneArgs.max_age_days
    /\ \E n \in ArchiveNames : exists(dirAtPrune, n) /\ ~exists(dir, n)


\* The download requests sent so far.
DownloadReqs == {j \in 1 .. Len(reqs) : reqs[j].op = "DOWNLOAD"}

\* C7: sync never requests, and never creates a file for, a name that does
\* not end with ".lzf"; and when sync has returned without error, every
\* listed *.lzf name that had no local entry has been downloaded and its
\* file holds the archive.
C7_ExtensionFilter ==
    /\ \A j \in DownloadReqs : reqs[j].name \in ArchiveNames
    /\ \A n \in Names \ ArchiveNames : dir[n] = snap[n]
    /\ (pc = "prune_call" /\ err = "none") =>
         \A k \in 1 .. Len(backups) :
             LET n == backups[k].name
             IN  (n \in ArchiveNames /\ ~exists(snap, n)) =>
                     /\ \E j \in DownloadReqs : reqs[j].name = n
                     /\ dir[n].kind = "file"
                     /\ dir[n].data = "archive"

\* sync returned without error after a list that names a *.lzf backup it
\* downloaded and a name of another suffix.
C7_Witness ==
    /\ pc = "prune_call"
    /\ err = "none"
    /\ DownloadReqs # {}
    /\ \E k \in 1 .. Len(backups) : backups[k].name \notin ArchiveNames

\* The hub answered the list request with status 200 and success.
ListAnswered ==
    \E j \in 1 .. Len(reqs) :
        reqs[j].op = "GET" /\ reqs[j].status = 200 /\ reqs[j].success

\* C8: when the hub's list is empty, sync never enters its loop and sends
\* no download request; it ends with an error and the destination's
\* entries as they were; and once the hub has answered the list request,
\* the error is the empty-list one and the destination directory exists.
C8_EmptyList ==
    backups = <<>> =>
        /\ DownloadReqs = {}
        /\ pc # "sync_loop"
        /\ SyncEnded => (err # "none" /\ dir = snap)
        /\ (SyncEnded /\ ListAnswered) => (err = "empty" /\ destExists)

\* The hub answered with an empty list and sync raised the empty-list error.
C8_Witness ==
    /\ backups = <<>>
    /\ pc = "main_except"
    /\ ListAnswered
    /\ err = "empty"

\* C9: the loop takes the backups in the order of the list, each request
\* being for the backup it is at; when the download or the write of
\* backups[i] fails, the error leaves sync for the caller at once, every
\* other entry of the destination (the files written for the backups
\* before it among them) stays as it is, the last request sent is the one
\* for backups[i], and no request is sent after sync has ended.
C9_StopAtFirstFailure ==
    [][ /\ (pc = "sync_loop" /\ pc' = "sync_loop") => i' \in {i, i + 1}
        /\ (pc = "sync_loop" /\ reqs' # reqs) =>
              /\ Len(reqs') = Len(reqs) + 1
              /\ reqs'[Len(reqs')].name = backups[i].name
        /\ (pc = "sync_loop" /\ err' # "none") =>
              /\ pc' = "main_except"
              /\ i' = i
              /\ \A n \in Names \ {backups[i].name} : dir'[n] = dir[n]
              /\ \A c \in created :
                     c.name # backups[i].name =>
                         dir'[c.name].kind = "file" /\ dir'[c.name].data = "archive"
              /\ reqs'[Len(reqs')].op = "DOWNLOAD"
              /\ reqs'[Len(reqs')].name = backups[i].name
        /\ pc \in {"main_except", "prune_call", "prune_scan"} => reqs' = reqs
      ]_vars

\* The download of the second backup failed after the first was written.
C9_Witness ==
    /\ pc = "main_except"
    /\ err = "download"
    /\ i = 2
    /\ backups[1].name # backups[2].name
    /\ Cardinality(DownloadReqs) = 2
    /\ dir[backups[1].name].data = "archive"
    /\ \E c \in created : c.name = backups[1].name


\* The hub's answer made the request fail: the status is not 200, or the
\* request is a structured one and the answer's "success" is false.
ReqFailed(r) ==
    \/ r.status # 200
    \/ r.op \in {"POST", "GET"} /\ ~r.success

\* C11: within one run of the script, the login request is sent exactly
\* once and is the first request; the list request is sent at most once,
\* right after a login that succeeded; download requests come after a list
\* request that succeeded, at most one for each name (so at most one for
\* each descriptor); and no request follows a request that failed.
C11_RequestOrder ==
    /\ pc # "main_login" <=> Len(reqs) >= 1
    /\ \A j \in 1 .. Len(reqs) :
          /\ reqs[j].op = "POST" <=> j = 1
          /\ reqs[j].op = "GET" =>
                j = 2 /\ reqs[1].status = 200 /\ reqs[1].success
          /\ reqs[j].op = "DOWNLOAD" =>
                /\ j >= 3
                /\ reqs[2].op = "GET" /\ reqs[2].status = 200 /\ reqs[2].success
                /\ \E k \in 1 .. Len(backups) : backups[k].name = reqs[j].name
                /\ \A k \in 1 .. Len(reqs) :
                       (reqs[k].op = "DOWNLOAD" /\ reqs[k].name = reqs[j].name) => k = j
          /\ j < Len(reqs) => ~ReqFailed(reqs[j])

\* The run is over: it logged in, listed, downloaded one backup, and the
\* download of the next one failed.
C11_Witness ==
    /\ pc = "done"
    /\ Len(reqs) = 4
    /\ reqs[3].op = "DOWNLOAD" /\ ~ReqFailed(reqs[3])
    /\ reqs[4].op = "DOWNLOAD" /\ ReqFailed(reqs[4])


\* C12: post and get raise whenever the status is not 200 or the answer's
\* "success" is false, and return the parsed body otherwise; download
\* raises exactly when the status is not 200 and otherwise returns the
\* body as it is, whatever "success" says.
C12_ResponseValidation ==
    pc = "hub_returned" =>
        LET r == call.response
        IN  /\ call.request_type \in {"POST", "GET"} =>
                  /\ (r.status # 200 \/ ~r.success) => ~outcome.ok
                  /\ (r.status = 200 /\ r.success) =>
                        outcome.ok /\ outcome.value = r.body
            /\ call.request_type = "DOWNLOAD" =>
                  /\ ~outcome.ok <=> r.status # 200
                  /\ outcome.ok => outcome.value = r.body

\* download has returned the body of a 200 answer whose "success" is false.
C12_Witness ==
    /\ pc = "hub_returned"
    /\ call.request_type = "DOWNLOAD"
    /\ call.response.status = 200
    /\ ~call.response.success
    /\ outcome.ok
    /\ outcome.value = call.response.body


\* C13: no step of sync changes or removes an entry that is in the
\* destination (its kind, content and modification time stay), and no
\* step requests the download of a name that is in the destination.
C13_ExistingUntouched ==
    [][ \A n \in Names :
            dir[n].kind # "absent" =>
                /\ dir'[n] = dir[n]
                /\ reqs' # reqs => reqs'[Len(reqs')].name # n
      ]_vars

\* sync has returned: it skipped a listed backup whose file was there when
\* it began and downloaded the other listed backup; the file is as it was.
C13_Witness ==
    /\ pc = "sync_returned"
    /\ pass = 1
    /\ Len(backups) = 2
    /\ snap[backups[1].name].kind = "file"
    /\ dir[backups[1].name] = snap[backups[1].name]
    /\ DownloadsOfPass(1) = {backups[2].name}


\* The download requests of call k of sync that the hub answered with a
\* status other than 200.
FailedDownloads(k) ==
    {j \in DownloadReqs : reqs[j].pass = k /\ reqs[j].status # 200}

\* The place in the list of the first descriptor named n.
FirstListed(n) ==
    CHOOSE k \in 1 .. Len(backups) :
        /\ backups[k].name = n
        /\ \A h \in 1 .. k - 1 : backups[h].name # n

\* C14: during and after a call of sync, an entry named n is in the
\* destination only if it was there when the call began or a download
\* request for n of this call was answered with status 200; a download
\* request answered otherwise leaves no entry under its name, at the end of
\* that call and until the next call asks for the name again, which it
\* does once it has come to that descriptor.
C14_FileOnlyAfter200 ==
    /\ \A n \in Names :
          dir[n].kind # "absent" =>
              \/ snap[n].kind # "absent"
              \/ \E j \in DownloadReqs :
                     /\ reqs[j].pass = pass
                     /\ reqs[j].name = n
                     /\ reqs[j].status = 200
    /\ \A j \in FailedDownloads(pass) : dir[reqs[j].name].kind = "absent"
    /\ pass = 2 =>
          \A j \in FailedDownloads(1) :
              LET n == reqs[j].name
              IN  /\ n \notin passEnd.names
                  /\ snap[n].kind = "absent"
                  /\ (pc = "sync_returned" \/ i > FirstListed(n)) =>
                        n \in DownloadsOfPass(2)

\* The first call of sync ended on a download answered 500 and left no
\* file; the second call asked for the same name, was answered 200 and
\* returned with the file in place.
C14_Witness ==
    /\ pass = 2
    /\ pc = "sync_returned"
    /\ \E j \in FailedDownloads(1) :
          /\ reqs[j].name \in DownloadsOfPass(2)
          /\ dir[reqs[j].name].kind = "file"
          /\ dir[reqs[j].name].data = "archive"


\* C15: in every run of the script, whatever login and sync did, the
\* destination directory exists when clean_old_backups begins to scan it,
\* and the run ends with an unhandled error only when os.stat or os.unlink
\* failed on a file.
C15_DestinationExistsAtPrune ==
    /\ pruneArgs.called => destExists
    /\ pc = "crashed" => err \in {"stat", "unlink"}


\* C16: after a run of the script in which nothing failed, no regular
\* file named *.lzf in the destination has age_days >= max_age_days, and no
\* backup of the hub's list whose createTime resolves to a time at least
\* max_age_days old has a file in the destination.
C16_NoOldBackupAfterRun ==
    (pc = "done" /\ err = "none") =>
        /\ \A n \in ArchiveNames :
              dir[n].kind = "file" =>
                  (prune_now - dir[n].mtime) \div MinutesPerDay < MAX_AGE_DAYS
        /\ \A k \in 1 .. Len(backups) :
              LET n == backups[k].name
                  date == get_date(backups[k].createTime, prune_now)
              IN  (n \in ArchiveNames /\ date.ok
                   /\ (prune_now - date.t) \div MinutesPerDay >= MAX_AGE_DAYS) =>
                      dir[n].kind # "file"

============================================================================
